---- MODULE Spec2Model ----
(***************************************************************************)
(* Attention computation engine of Deep-ML-Solutions:                      *)
(*   src/numpy/94-Implement Multi-Head Attention.py                        *)
(*       self_attention, multi_head_attention                              *)
(*   src/numpy/107-Implement Masked Self-Attention.py                      *)
(*       masked_attention                                                  *)
(* and the list-of-lists product                                           *)
(*   src/solutions/easy/example-matrix-multiply/solution.py                *)
(*       matrix_multiply                                                   *)
(*                                                                         *)
(* One call of one function is one behaviour: Init draws the function and  *)
(* its arguments, every statement of the function is one action.           *)
(*   Spec       the attention functions on arguments of matching shapes    *)
(*   ShapeSpec  masked_attention on Q, K, V and masks of any shapes        *)
(*   MatSpec    matrix_multiply on lists of lists, empty and ragged too    *)
(*                                                                         *)
(* Numbers.  numpy computes in float64.  A number is a record              *)
(*     [k |-> kind, b |-> n, f |-> i]                                      *)
(* kind "fin" stands for the real  i/Unit - n * 10^9  (Unit is the scale   *)
(* of the stage: FIX for scores, ES for exponentials, WS for weights and   *)
(* outputs), kinds "ninf", "pinf" and "nan" for the IEEE values -inf,      *)
(* +inf and NaN.  The component b keeps the -1e9 sentinel apart from the   *)
(* fine part, so that  (s - 1e9) - (t - 1e9) = s - t  as in float64.       *)
(***************************************************************************)
EXTENDS Integers, Sequences, FiniteSets, TLC

(* ------------------------------ bounds -------------------------------- *)
MaxSeqLen == 2
MaxDModel == 4
MaxHeads == 4
MaxSeed == 1
ValMod == 3
MaxDim == 2
MaxLen == 2

(* ----------------------- fixed-point resolution ----------------------- *)
FIX == 10^3
SQ == 10^3
ES == 10^4
WS == 10^8

(* ------------------------------ numbers ------------------------------- *)
Fin(i) == [k |-> "fin", b |-> 0, f |-> i]
Big(n, i) == [k |-> "fin", b |-> n, f |-> i]
NegInf == [k |-> "ninf", b |-> 0, f |-> 0]
PosInf == [k |-> "pinf", b |-> 0, f |-> 0]
NaN == [k |-> "nan", b |-> 0, f |-> 0]

\* x < y on float64 (any comparison with NaN is False)
NLess(x, y) ==
    IF x.k = "nan" \/ y.k = "nan" THEN FALSE
    ELSE IF x.k = "ninf" THEN y.k # "ninf"
    ELSE IF x.k = "pinf" THEN FALSE
    ELSE IF y.k = "ninf" THEN FALSE
    ELSE IF y.k = "pinf" THEN TRUE
    ELSE x.b > y.b \/ (x.b = y.b /\ x.f < y.f)

\* x + y
NAdd(x, y) ==
    IF x.k = "nan" \/ y.k = "nan" THEN NaN
    ELSE IF x.k = "ninf" THEN (IF y.k = "pinf" THEN NaN ELSE NegInf)
    ELSE IF x.k = "pinf" THEN (IF y.k = "ninf" THEN NaN ELSE PosInf)
    ELSE IF y.k # "fin" THEN y
    ELSE Big(x.b + y.b, x.f + y.f)

\* x - y
NSub(x, y) ==
    IF x.k = "nan" \/ y.k = "nan" THEN NaN
    ELSE IF x.k = "ninf" THEN (IF y.k = "ninf" THEN NaN ELSE NegInf)
    ELSE IF x.k = "pinf" THEN (IF y.k = "pinf" THEN NaN ELSE PosInf)
    ELSE IF y.k = "ninf" THEN PosInf
    ELSE IF y.k = "pinf" THEN NegInf
    ELSE Big(x.b - y.b, x.f - y.f)

\* a / b rounded to the nearest integer, b > 0
RoundDiv(a, b) == (2 * a + b) \div (2 * b)

\* the largest r in lo..hi with r * r <= n, by bisection
RECURSIVE ISqrt(_, _, _)
ISqrt(lo, hi, n) ==
    IF lo = hi THEN lo
    ELSE LET mid == (lo + hi + 1) \div 2
         IN  IF mid * mid <= n THEN ISqrt(mid, hi, n) ELSE ISqrt(lo, mid - 1, n)

\* floor(sqrt(n) * SQ), the model of np.sqrt(d_k)
SqrtFix(n) == ISqrt(0, n * SQ, n * SQ * SQ)

\* ES * e^(-n) for a natural n
RECURSIVE ExpInt(_)
ExpInt(n) == IF n = 0 THEN ES
             ELSE IF n > 12 THEN 0
             ELSE (ExpInt(n - 1) * 36788) \div 100000

\* FIX * e^(-r/FIX) for 0 <= r < FIX, by the alternating series
ExpFrac(r) ==
    LET t2 == (r * r) \div (2 * FIX)
        t3 == (t2 * r) \div (3 * FIX)
        t4 == (t3 * r) \div (4 * FIX)
        t5 == (t4 * r) \div (5 * FIX)
        t6 == (t5 * r) \div (6 * FIX)
    IN  FIX - r + t2 - t3 + t4 - t5 + t6

\* ES * e^(x.f / FIX) for a finite x
ExpFixed(i) ==
    IF i <= 0
    THEN (ExpInt((0 - i) \div FIX) * ExpFrac((0 - i) % FIX)) \div FIX
    ELSE IF i > 8 * FIX THEN ES * 2981
    ELSE (ES * ES) \div ((ExpInt(i \div FIX) * ExpFrac(i % FIX)) \div FIX)

\* np.exp(x): x at scale FIX, the result at scale ES
NExp(x) ==
    IF x.k = "nan" THEN NaN
    ELSE IF x.k = "ninf" THEN Fin(0)
    ELSE IF x.k = "pinf" THEN PosInf
    ELSE IF x.b > 0 THEN Fin(0)
    ELSE IF x.b < 0 THEN PosInf
    ELSE Fin(ExpFixed(x.f))

\* a / s at scale WS, by long division (a <= ES, s > 0)
LongDiv(a, s) ==
    LET hi == (a * ES) \div s
        lo == (((a * ES) % s) * ES) \div s
    IN  hi * ES + lo

\* e / s of np.exp values: the result at scale WS
NDiv(e, s) ==
    IF e.k = "nan" \/ s.k = "nan" THEN NaN
    ELSE IF e.k = "pinf" THEN (IF s.k = "pinf" THEN NaN ELSE PosInf)
    ELSE IF s.k = "pinf" THEN Fin(0)
    ELSE IF s.f = 0 THEN (IF e.f = 0 THEN NaN ELSE PosInf)
    ELSE Fin(LongDiv(e.f, s.f))

\* w * v for a weight w and an integer-valued entry v of V
NMulInt(w, v) ==
    IF w.k = "nan" THEN NaN
    ELSE IF w.k = "fin" THEN Fin(w.f * v)
    ELSE IF v = 0 THEN NaN
    ELSE IF (v > 0) = (w.k = "pinf") THEN PosInf ELSE NegInf

RECURSIVE NSum(_)
NSum(s) == IF s = <<>> THEN Fin(0) ELSE NAdd(s[1], NSum(Tail(s)))

RECURSIVE NMax(_)
\* np.max of a non-empty sequence: NaN propagates
NMax(s) ==
    IF Len(s) = 1 THEN s[1]
    ELSE LET m == NMax(Tail(s))
         IN  IF s[1].k = "nan" \/ m.k = "nan" THEN NaN
             ELSE IF NLess(s[1], m) THEN m ELSE s[1]

RECURSIVE ISum(_)
ISum(s) == IF s = <<>> THEN 0 ELSE s[1] + ISum(Tail(s))

(* ------------------------------ ndarrays ------------------------------ *)
\* An ndarray is its shape and its entries in C (row-major) order.
\* the buffer <<F[1], ..., F[n]>>, every entry computed once
Tabulate(n, F) ==
    LET RECURSIVE Upto(_)
        Upto(k) == IF k = 0 THEN <<>> ELSE Append(Upto(k - 1), F[k])
    IN  Upto(n)

\* index sets of a rank-2 and a rank-3 array
Ix2(rows, cols) == (0..(rows - 1)) \X (0..(cols - 1))
Ix3(n, rows, cols) == (0..(n - 1)) \X (0..(rows - 1)) \X (0..(cols - 1))

NoArr == [shape |-> <<0>>, data |-> <<>>]

\* the rank-2 array with entry F[<<i, j>>] at (i, j)
Arr2(rows, cols, F) ==
    [shape |-> <<rows, cols>>,
     data |-> Tabulate(rows * cols,
                       [x \in 1..(rows * cols) |-> F[<<(x - 1) \div cols, (x - 1) % cols>>]])]

\* the rank-3 array with entry F[<<h, i, j>>] at (h, i, j)
Arr3(n, rows, cols, F) ==
    [shape |-> <<n, rows, cols>>,
     data |-> Tabulate(n * rows * cols,
                       [x \in 1..(n * rows * cols) |->
                          F[<<(x - 1) \div (rows * cols), ((x - 1) \div cols) % rows,
                              (x - 1) % cols>>]])]

At2(A, s, c) == A.data[s * A.shape[2] + c + 1]
At3(A, h, s, c) == A.data[(h * A.shape[2] + s) * A.shape[3] + c + 1]

\* A.reshape(shp): the same buffer read with another shape
Reshape(A, shp) == [shape |-> shp, data |-> A.data]

\* A.transpose(p) of a rank-3 array: axis x of the result is axis p[x] of A
Transpose3(A, p) ==
    LET ns == <<A.shape[p[1] + 1], A.shape[p[2] + 1], A.shape[p[3] + 1]>>
        Old(n) == [x \in 1..3 |-> n[CHOOSE y \in 1..3 : p[y] + 1 = x]]
    IN  Arr3(ns[1], ns[2], ns[3],
             [n \in Ix3(ns[1], ns[2], ns[3]) |->
                LET o == Old(n) IN At3(A, o[1], o[2], o[3])])

\* A.T of a rank-2 array
Transpose2(A) ==
    Arr2(A.shape[2], A.shape[1], [n \in Ix2(A.shape[2], A.shape[1]) |-> At2(A, n[2], n[1])])

\* the rows of the last axis: row r is entries r*L+1 .. (r+1)*L
LastDim(A) == A.shape[Len(A.shape)]
RowOf(A, r) == [j \in 1..LastDim(A) |-> A.data[r * LastDim(A) + j]]
\* the row that holds entry x of the buffer
RowAt(A, x) == RowOf(A, (x - 1) \div LastDim(A))

(* ------------------------------- inputs ------------------------------- *)
\* integer-valued input matrices: entries in -1 .. ValMod - 2
InputMat(seed, rows, cols) ==
    Arr2(rows, cols, [n \in Ix2(rows, cols) |->
                        LET x == n[1] * cols + n[2]
                        IN  ((seed * x * x + x + seed) % ValMod) - 1])

NoMask == [shape |-> <<0>>, data |-> <<>>]
MaskPatterns == {"all", "causal", "none", "row0", "diag"}
Allowed(p, i, j) ==
    CASE p = "all" -> TRUE
      [] p = "causal" -> j <= i
      [] p = "none" -> FALSE
      [] p = "row0" -> i # 0
      [] p = "diag" -> j = i

AllowVals == {Fin(0), Fin(FIX)}
ForbidVals == {Fin(0), Big(1, 0), NegInf, Fin((0 - 10000) * FIX),
               Fin((0 - 10000) * FIX - 1), Fin((0 - 5000) * FIX)}
MaskMat(p, a, z, rows, cols) ==
    Arr2(rows, cols, [n \in Ix2(rows, cols) |-> IF Allowed(p, n[1], n[2]) THEN a ELSE z])

(* ------------------------------- state -------------------------------- *)
VARIABLES fn, pc, err, Q, K, V, n_heads, mask, d_k,
          Q_heads, K_heads, V_heads, scores, scores_shifted,
          scaled_dot_product, exp_scores, attention_weights,
          attention_output_heads, output, pending, mm

vars == <<fn, pc, err, Q, K, V, n_heads, mask, d_k,
          Q_heads, K_heads, V_heads, scores, scores_shifted,
          scaled_dot_product, exp_scores, attention_weights,
          attention_output_heads, output, pending, mm>>

args == <<fn, Q, K, V, n_heads, mask>>
heads == <<Q_heads, K_heads, V_heads>>

seq_len == Q.shape[1]
d_model == Q.shape[2]

\* mm is the frame of matrix_multiply: its arguments A and B (lists of
\* lists) and its locals m, n, p, C, i, j, k
NoFrame == [A |-> <<>>, B |-> <<>>, C |-> <<>>,
            m |-> 0, n |-> 0, p |-> 0, i |-> 0, j |-> 0, k |-> 0]

Init ==
    /\ fn \in {"multi_head_attention", "self_attention", "masked_attention"}
    /\ \E rows \in 1..MaxSeqLen, cols \in 1..MaxDModel, qs \in 0..MaxSeed,
          ks \in 0..MaxSeed, vs \in 0..MaxSeed :
          /\ Q = InputMat(qs, rows, cols)
          /\ K = InputMat(ks + 1, rows, cols)
          /\ V = InputMat(vs + 2, rows, cols)
          /\ mask \in IF fn = "masked_attention"
                      THEN {NoMask} \cup {MaskMat(p, a, z, rows, rows) :
                               p \in MaskPatterns, a \in AllowVals, z \in ForbidVals}
                      ELSE {NoMask}
    /\ n_heads \in IF fn = "multi_head_attention" THEN 1..MaxHeads ELSE {0}
    /\ pc = "start"
    /\ err = "none"
    /\ d_k = 0
    /\ Q_heads = NoArr /\ K_heads = NoArr /\ V_heads = NoArr
    /\ scores = NoArr /\ scores_shifted = NoArr /\ scaled_dot_product = NoArr
    /\ exp_scores = NoArr /\ attention_weights = NoArr
    /\ attention_output_heads = NoArr /\ output = NoArr
    /\ pending = {}
    /\ mm = NoFrame

(* ------------------------- shared array steps ------------------------- *)
Unset == [k |-> "unset", b |-> 0, f |-> 0]
Empty3(n, rows, cols) == Arr3(n, rows, cols, [x \in Ix3(n, rows, cols) |-> Unset])

\* a write that runs past the slot of head h into the slots after it
SetHead_Overrun(A, h, F) ==
    [shape |-> A.shape,
     data |-> Tabulate(Len(A.data),
                 [x \in 1..Len(A.data) |->
                    IF (x - 1) \div (A.shape[2] * A.shape[3]) >= h
                    THEN F[<<((x - 1) \div A.shape[3]) % A.shape[2], (x - 1) % A.shape[3]>>]
                    ELSE A.data[x]])]

\* entries (i, j) of head h replaced by F[<<i, j>>]
SetHead(A, h, F) ==
    [shape |-> A.shape,
     data |-> Tabulate(Len(A.data),
                 [x \in 1..Len(A.data) |->
                    IF (x - 1) \div (A.shape[2] * A.shape[3]) = h
                    THEN F[<<((x - 1) \div A.shape[3]) % A.shape[2], (x - 1) % A.shape[3]>>]
                    ELSE A.data[x]])]

\* dot / np.sqrt(dk) at scale FIX
Scale(dot, dk) == Fin(RoundDiv(dot * FIX * SQ, SqrtFix(dk)))

\* np.dot(Qm, Km.T) / np.sqrt(d_k)   with d_k = Km.shape[-1]
ScaledDotProduct(Qm, Km) ==
    LET KT == Transpose2(Km)
        dk == Km.shape[2]
    IN  Arr2(Qm.shape[1], KT.shape[2],
             [n \in Ix2(Qm.shape[1], KT.shape[2]) |->
                Scale(ISum([c \in 1..Qm.shape[2] |->
                              At2(Qm, n[1], c - 1) * At2(KT, c - 1, n[2])]), dk)])

\* scores scaled by the model width d_model = n_heads * dk instead of dk
ScoreAt_ModelWidth(Qh, KT, dk, h, i, j) ==
    Scale(ISum([c \in 1..Qh.shape[3] |-> At3(Qh, h, i, c - 1) * At3(KT, h, c - 1, j)]),
          dk * Qh.shape[1])

\* entry (i, j) of head h of np.matmul(Qh, KT) / np.sqrt(dk),
\* KT being K_heads.transpose(0, 2, 1)
ScoreAt(Qh, KT, dk, h, i, j) ==
    Scale(ISum([c \in 1..Qh.shape[3] |-> At3(Qh, h, i, c - 1) * At3(KT, h, c - 1, j)]), dk)

\* A - np.max(A, axis=-1, keepdims=True)
ShiftMax(A) ==
    [shape |-> A.shape,
     data |-> Tabulate(Len(A.data),
                       [x \in 1..Len(A.data) |-> NSub(A.data[x], NMax(RowAt(A, x)))])]

\* np.exp(A)
ExpArr(A) ==
    [shape |-> A.shape,
     data |-> Tabulate(Len(A.data), [x \in 1..Len(A.data) |-> NExp(A.data[x])])]

\* A / np.sum(A, axis=-1, keepdims=True)
Normalize(A) ==
    [shape |-> A.shape,
     data |-> Tabulate(Len(A.data),
                       [x \in 1..Len(A.data) |-> NDiv(A.data[x], NSum(RowAt(A, x)))])]

\* np.dot(W, Vm) for a weights matrix W and an integer-valued Vm
WeightedSum(W, Vm) ==
    Arr2(W.shape[1], Vm.shape[2],
         [n \in Ix2(W.shape[1], Vm.shape[2]) |->
            NSum([j \in 1..W.shape[2] |->
                    NMulInt(At2(W, n[1], j - 1), At2(Vm, j - 1, n[2]))])])

\* entry (i, c) of head h of np.matmul(W, Vh)
OutputAt(W, Vh, h, i, c) ==
    NSum([j \in 1..W.shape[3] |-> NMulInt(At3(W, h, i, j - 1), At3(Vh, h, j - 1, c))])

\* a strided split: column c * n + h goes to head h
SplitHeads_Strided(X, n, dk) == Transpose3(Reshape(X, <<X.shape[1], dk, n>>), <<2, 0, 1>>)

\* X.reshape(seq_len, n_heads, d_k).transpose(1, 0, 2)
SplitHeads(X, n, dk) == Transpose3(Reshape(X, <<X.shape[1], n, dk>>), <<1, 0, 2>>)

\* a merge that forgets the transpose
MergeHeads_NoTranspose(H, rows, cols) == Reshape(H, <<rows, cols>>)

\* a merge that forgets the final reshape
MergeHeads_NoReshape(H, rows, cols) == Transpose3(H, <<1, 0, 2>>)

\* H.transpose(1, 0, 2).reshape(seq_len, d_model)
MergeHeads(H, rows, cols) == Reshape(Transpose3(H, <<1, 0, 2>>), <<rows, cols>>)

(* --------------------------- self_attention --------------------------- *)
self_attention(Qm, Km, Vm) ==
    WeightedSum(Normalize(ExpArr(ShiftMax(ScaledDotProduct(Qm, Km)))), Vm)

SA_Scores ==
    /\ fn = "self_attention" /\ pc = "start"
    /\ d_k' = K.shape[2]
    /\ scaled_dot_product' = ScaledDotProduct(Q, K)
    /\ pc' = "exp"
    /\ UNCHANGED <<mm, args, err, heads, scores, scores_shifted, exp_scores,
                   attention_weights, attention_output_heads, output, pending>>

SA_Exp ==
    /\ fn = "self_attention" /\ pc = "exp"
    /\ exp_scores' = ExpArr(ShiftMax(scaled_dot_product))
    /\ pc' = "normalize"
    /\ UNCHANGED <<mm, args, err, d_k, heads, scores, scores_shifted, scaled_dot_product,
                   attention_weights, attention_output_heads, output, pending>>

SA_Normalize ==
    /\ fn = "self_attention" /\ pc = "normalize"
    /\ attention_weights' = Normalize(exp_scores)
    /\ pc' = "output"
    /\ UNCHANGED <<mm, args, err, d_k, heads, scores, scores_shifted, scaled_dot_product,
                   exp_scores, attention_output_heads, output, pending>>

SA_Output ==
    /\ fn = "self_attention" /\ pc = "output"
    /\ output' = WeightedSum(attention_weights, V)
    /\ pc' = "done"
    /\ UNCHANGED <<mm, args, err, d_k, heads, scores, scores_shifted, scaled_dot_product,
                   exp_scores, attention_weights, attention_output_heads, pending>>

(* ------------------------ multi_head_attention ------------------------ *)
\* the guard of the ValueError:  d_model % n_heads != 0
HeadCountMismatch_Weak(dm, n) == n > dm

HeadCountMismatch(dm, n) == dm % n # 0

\* the function as a whole, heads taken in index order
multi_head_attention(Qm, Km, Vm, n) ==
    LET rows == Qm.shape[1]
        cols == Qm.shape[2]
        dk == cols \div n
        Qh == SplitHeads(Qm, n, dk)
        Kh == SplitHeads(Km, n, dk)
        Vh == SplitHeads(Vm, n, dk)
        KT == Transpose3(Kh, <<0, 2, 1>>)
        S == Arr3(n, rows, rows,
                  [x \in Ix3(n, rows, rows) |-> ScoreAt(Qh, KT, dk, x[1], x[2], x[3])])
        W == Normalize(ExpArr(ShiftMax(S)))
        O == Arr3(n, rows, dk,
                  [x \in Ix3(n, rows, dk) |-> OutputAt(W, Vh, x[1], x[2], x[3])])
    IN  MergeHeads(O, rows, cols)

MHA_Validate ==
    /\ fn = "multi_head_attention" /\ pc = "start"
    /\ IF HeadCountMismatch(d_model, n_heads)
       THEN /\ err' = "ValueError"
            /\ pc' = "raised"
            /\ d_k' = d_k
       ELSE /\ d_k' = d_model \div n_heads
            /\ pc' = "split"
            /\ err' = err
    /\ UNCHANGED <<mm, args, heads, scores, scores_shifted, scaled_dot_product, exp_scores,
                   attention_weights, attention_output_heads, output, pending>>

MHA_Split ==
    /\ fn = "multi_head_attention" /\ pc = "split"
    /\ Q_heads' = SplitHeads(Q, n_heads, d_k)
    /\ K_heads' = SplitHeads(K, n_heads, d_k)
    /\ V_heads' = SplitHeads(V, n_heads, d_k)
    /\ scores' = Empty3(n_heads, seq_len, seq_len)
    /\ pending' = 0..(n_heads - 1)
    /\ pc' = "scores"
    /\ UNCHANGED <<mm, args, err, d_k, scores_shifted, scaled_dot_product, exp_scores,
                   attention_weights, attention_output_heads, output>>

\* np.matmul works through the batch axis head by head, in no stated order
MHA_Scores(h) ==
    /\ fn = "multi_head_attention" /\ pc = "scores" /\ h \in pending
    /\ scores' = LET KT == Transpose3(K_heads, <<0, 2, 1>>)
                 IN  SetHead(scores, h,
                             [x \in Ix2(seq_len, seq_len) |->
                                ScoreAt(Q_heads, KT, d_k, h, x[1], x[2])])
    /\ pending' = pending \ {h}
    /\ pc' = IF pending' = {} THEN "shift" ELSE "scores"
    /\ UNCHANGED <<mm, args, err, d_k, heads, scores_shifted, scaled_dot_product, exp_scores,
                   attention_weights, attention_output_heads, output>>

MHA_Shift ==
    /\ fn = "multi_head_attention" /\ pc = "shift"
    /\ scores_shifted' = ShiftMax(scores)
    /\ pc' = "exp"
    /\ UNCHANGED <<mm, args, err, d_k, heads, scores, scaled_dot_product, exp_scores,
                   attention_weights, attention_output_heads, output, pending>>

MHA_Exp ==
    /\ fn = "multi_head_attention" /\ pc = "exp"
    /\ exp_scores' = ExpArr(scores_shifted)
    /\ pc' = "normalize"
    /\ UNCHANGED <<mm, args, err, d_k, heads, scores, scores_shifted, scaled_dot_product,
                   attention_weights, attention_output_heads, output, pending>>

MHA_Normalize ==
    /\ fn = "multi_head_attention" /\ pc = "normalize"
    /\ attention_weights' = Normalize(exp_scores)
    /\ attention_output_heads' = Empty3(n_heads, seq_len, d_k)
    /\ pending' = 0..(n_heads - 1)
    /\ pc' = "aggregate"
    /\ UNCHANGED <<mm, args, err, d_k, heads, scores, scores_shifted, scaled_dot_product,
                   exp_scores, output>>

MHA_Aggregate(h) ==
    /\ fn = "multi_head_attention" /\ pc = "aggregate" /\ h \in pending
    /\ attention_output_heads' =
          SetHead(attention_output_heads, h,
                  [x \in Ix2(seq_len, d_k) |->
                     OutputAt(attention_weights, V_heads, h, x[1], x[2])])
    /\ pending' = pending \ {h}
    /\ pc' = IF pending' = {} THEN "merge" ELSE "aggregate"
    /\ UNCHANGED <<mm, args, err, d_k, heads, scores, scores_shifted, scaled_dot_product,
                   exp_scores, attention_weights, output>>

MHA_Merge ==
    /\ fn = "multi_head_attention" /\ pc = "merge"
    /\ output' = MergeHeads(attention_output_heads, seq_len, d_model)
    /\ pc' = "done"
    /\ UNCHANGED <<mm, args, err, d_k, heads, scores, scores_shifted, scaled_dot_product,
                   exp_scores, attention_weights, attention_output_heads, pending>>

(* -------------------------- masked_attention -------------------------- *)
\* the literal -1e4 of  np.any(mask < -1e4)
Threshold == Fin((0 - 10000) * FIX)
\* the literal -1e9 of  np.where(mask == 0, -1e9, scaled_dot_product)
Sentinel == Big(1, 0)

\* a test that also counts an entry equal to -1e4
IsAdditive_Inclusive(m) == \E x \in 1..Len(m.data) : ~NLess(Threshold, m.data[x])

\* np.any(mask < -1e4)
IsAdditive(m) == \E x \in 1..Len(m.data) : NLess(m.data[x], Threshold)

\* a test that masks every entry other than 1
IsZero_NotOne(x) == x # Fin(FIX)

\* mask == 0, elementwise
IsZero(x) == x.k = "fin" /\ x.b = 0 /\ x.f = 0

\* numpy broadcasting of two axis lengths: equal, or one of them is 1
Compatible(a, b) == a = b \/ a = 1 \/ b = 1
BroadcastDim(a, b) == IF a = 1 THEN b ELSE a
\* entry (i, j) of the rank-2 array A stretched along its axes of length 1
BroadcastAt(A, i, j) ==
    At2(A, IF A.shape[1] = 1 THEN 0 ELSE i, IF A.shape[2] = 1 THEN 0 ELSE j)

\* np.dot(A, B) of rank-2 arrays raises ValueError (shapes not aligned)
DotRaises(A, B) == A.shape[2] # B.shape[1]

\* scaled_dot_product += mask raises ValueError: the in-place sum keeps the
\* shape of its left operand, so the mask has to broadcast to that shape
AddRaises(S, m) ==
    ~ /\ m.shape[1] \in {1, S.shape[1]}
      /\ m.shape[2] \in {1, S.shape[2]}

\* scaled_dot_product += mask
AddMask(S, m) ==
    Arr2(S.shape[1], S.shape[2],
         [n \in Ix2(S.shape[1], S.shape[2]) |->
            NAdd(At2(S, n[1], n[2]), BroadcastAt(m, n[1], n[2]))])

\* np.where(mask == 0, -1e9, scaled_dot_product) raises ValueError
WhereRaises(S, m) ==
    ~ /\ Compatible(m.shape[1], S.shape[1])
      /\ Compatible(m.shape[2], S.shape[2])

\* np.where(mask == 0, -1e9, scaled_dot_product): the result has the
\* broadcast shape of the mask and the scores
WhereMask(S, m) ==
    LET rows == BroadcastDim(m.shape[1], S.shape[1])
        cols == BroadcastDim(m.shape[2], S.shape[2])
    IN  Arr2(rows, cols,
             [n \in Ix2(rows, cols) |->
                IF IsZero(BroadcastAt(m, n[1], n[2])) THEN Sentinel
                ELSE BroadcastAt(S, n[1], n[2])])

\* step 3 of masked_attention
ApplyMask(S, m) ==
    IF m = NoMask THEN S
    ELSE IF IsAdditive(m) THEN AddMask(S, m)
    ELSE WhereMask(S, m)

masked_attention(Qm, Km, Vm, m) ==
    WeightedSum(Normalize(ExpArr(ShiftMax(ApplyMask(ScaledDotProduct(Qm, Km), m)))), Vm)

MA_Scores ==
    /\ fn = "masked_attention" /\ pc = "start"
    /\ d_k' = K.shape[2]
    /\ IF DotRaises(Q, Transpose2(K))
       THEN /\ err' = "ValueError"
            /\ pc' = "raised"
            /\ UNCHANGED scaled_dot_product
       ELSE /\ scaled_dot_product' = ScaledDotProduct(Q, K)
            /\ pc' = "mask"
            /\ err' = err
    /\ UNCHANGED <<mm, args, heads, scores, scores_shifted, exp_scores,
                   attention_weights, attention_output_heads, output, pending>>

MA_NoMask ==
    /\ fn = "masked_attention" /\ pc = "mask"
    /\ mask = NoMask
    /\ pc' = "exp"
    /\ UNCHANGED <<mm, args, err, d_k, heads, scores, scores_shifted, scaled_dot_product,
                   exp_scores, attention_weights, attention_output_heads, output, pending>>

MA_Additive ==
    /\ fn = "masked_attention" /\ pc = "mask"
    /\ mask # NoMask /\ IsAdditive(mask)
    /\ IF AddRaises(scaled_dot_product, mask)
       THEN /\ err' = "ValueError"
            /\ pc' = "raised"
            /\ UNCHANGED scaled_dot_product
       ELSE /\ scaled_dot_product' = AddMask(scaled_dot_product, mask)
            /\ pc' = "exp"
            /\ err' = err
    /\ UNCHANGED <<mm, args, d_k, heads, scores, scores_shifted,
                   exp_scores, attention_weights, attention_output_heads, output, pending>>

MA_Binary ==
    /\ fn = "masked_attention" /\ pc = "mask"
    /\ mask # NoMask /\ ~IsAdditive(mask)
    /\ IF WhereRaises(scaled_dot_product, mask)
       THEN /\ err' = "ValueError"
            /\ pc' = "raised"
            /\ UNCHANGED scaled_dot_product
       ELSE /\ scaled_dot_product' = WhereMask(scaled_dot_product, mask)
            /\ pc' = "exp"
            /\ err' = err
    /\ UNCHANGED <<mm, args, d_k, heads, scores, scores_shifted,
                   exp_scores, attention_weights, attention_output_heads, output, pending>>

MA_Exp ==
    /\ fn = "masked_attention" /\ pc = "exp"
    /\ exp_scores' = ExpArr(ShiftMax(scaled_dot_product))
    /\ pc' = "normalize"
    /\ UNCHANGED <<mm, args, err, d_k, heads, scores, scores_shifted, scaled_dot_product,
                   attention_weights, attention_output_heads, output, pending>>

MA_Normalize ==
    /\ fn = "masked_attention" /\ pc = "normalize"
    /\ attention_weights' = Normalize(exp_scores)
    /\ pc' = "output"
    /\ UNCHANGED <<mm, args, err, d_k, heads, scores, scores_shifted, scaled_dot_product,
                   exp_scores, attention_output_heads, output, pending>>

MA_Output ==
    /\ fn = "masked_attention" /\ pc = "output"
    /\ IF DotRaises(attention_weights, V)
       THEN /\ err' = "ValueError"
            /\ pc' = "raised"
            /\ UNCHANGED output
       ELSE /\ output' = WeightedSum(attention_weights, V)
            /\ pc' = "done"
            /\ err' = err
    /\ UNCHANGED <<mm, args, d_k, heads, scores, scores_shifted, scaled_dot_product,
                   exp_scores, attention_weights, attention_output_heads, pending>>

Next ==
    \/ MA_Scores \/ MA_NoMask \/ MA_Additive \/ MA_Binary
    \/ MA_Exp \/ MA_Normalize \/ MA_Output
    \/ SA_Scores \/ SA_Exp \/ SA_Normalize \/ SA_Output
    \/ MHA_Validate \/ MHA_Split
    \/ \E h \in 0..(MaxHeads - 1) : MHA_Scores(h)
    \/ MHA_Shift \/ MHA_Exp \/ MHA_Normalize
    \/ \E h \in 0..(MaxHeads - 1) : MHA_Aggregate(h)
    \/ MHA_Merge

Spec == Init /\ [][Next]_vars

(* ------------- masked_attention on arguments of any shape ------------- *)
\* masks of r rows and c columns: an additive one (0 / -1e9) and a binary
\* one (1 / 0), both lower-triangular
ShapeMasks(r, c) ==
    {MaskMat("causal", Fin(0), Big(1, 0), r, c), MaskMat("causal", Fin(FIX), Fin(0), r, c)}

\* Q of shape (m, d_k), K of shape (n, d_k'), V of shape (n', d_v) and a
\* mask of shape (r, c), every length drawn independently
ShapeInit ==
    /\ fn = "masked_attention"
    /\ \E m \in 1..MaxDim, dq \in 1..MaxDim, n \in 1..MaxDim, dk \in 1..MaxDim,
          nv \in 1..MaxDim, dv \in 1..MaxDim :
          /\ Q = InputMat(0, m, dq)
          /\ K = InputMat(1, n, dk)
          /\ V = InputMat(2, nv, dv)
    /\ mask \in {NoMask} \cup UNION {ShapeMasks(r, c) : r \in 1..MaxDim, c \in 1..MaxDim}
    /\ n_heads = 0
    /\ pc = "start"
    /\ err = "none"
    /\ d_k = 0
    /\ Q_heads = NoArr /\ K_heads = NoArr /\ V_heads = NoArr
    /\ scores = NoArr /\ scores_shifted = NoArr /\ scaled_dot_product = NoArr
    /\ exp_scores = NoArr /\ attention_weights = NoArr
    /\ attention_output_heads = NoArr /\ output = NoArr
    /\ pending = {}
    /\ mm = NoFrame

ShapeNext ==
    \/ MA_Scores \/ MA_NoMask \/ MA_Additive \/ MA_Binary
    \/ MA_Exp \/ MA_Normalize \/ MA_Output

ShapeSpec == ShapeInit /\ [][ShapeNext]_vars

(* --------------------------- matrix_multiply -------------------------- *)
\* Python lists of lists of integers; entries in -1 .. ValMod - 2
ListMat(seed, rows, cols) ==
    Tabulate(rows, [r \in 1..rows |->
        Tabulate(cols, [c \in 1..cols |->
            LET x == (r - 1) * cols + (c - 1)
            IN  ((seed * x * x + x + seed) % ValMod) - 1])])
Identity(size) ==
    Tabulate(size, [r \in 1..size |->
        Tabulate(size, [c \in 1..size |-> IF r = c THEN 1 ELSE 0])])
\* lists whose rows differ in length: the last row one entry shorter, or one
\* entry longer, than the first
ShortLast(M) == [M EXCEPT ![Len(M)] = SubSeq(@, 1, Len(@) - 1)]
LongLast(M) == [M EXCEPT ![Len(M)] = Append(@, 1)]
Lists ==
    {ListMat(s, r, c) : s \in 0..MaxSeed, r \in 0..MaxLen, c \in 0..MaxLen}
    \cup {Identity(size) : size \in 1..MaxLen}
    \cup UNION {{ShortLast(ListMat(0, r, c)), LongLast(ListMat(0, r, c))} :
                   r \in 2..MaxLen, c \in 1..MaxLen}

\* the attention functions' variables, idle while matrix_multiply runs
attention == <<Q, K, V, n_heads, mask, d_k, heads, scores, scores_shifted,
               scaled_dot_product, exp_scores, attention_weights,
               attention_output_heads, output, pending>>

MatInit ==
    /\ fn = "matrix_multiply"
    /\ \E A \in Lists, B \in Lists : mm = [NoFrame EXCEPT !.A = A, !.B = B]
    /\ pc = "start"
    /\ err = "none"
    /\ Q = NoArr /\ K = NoArr /\ V = NoArr /\ mask = NoMask
    /\ n_heads = 0
    /\ d_k = 0
    /\ Q_heads = NoArr /\ K_heads = NoArr /\ V_heads = NoArr
    /\ scores = NoArr /\ scores_shifted = NoArr /\ scaled_dot_product = NoArr
    /\ exp_scores = NoArr /\ attention_weights = NoArr
    /\ attention_output_heads = NoArr /\ output = NoArr
    /\ pending = {}

\* not A or not B or not A[0] or not B[0]
IsEmpty(A, B) == A = <<>> \/ B = <<>> \/ A[1] = <<>> \/ B[1] = <<>>

\* a test that accepts a B with more rows than A has columns
Incompatible_Fewer(B, n) == Len(B) < n

\* len(B) != n
Incompatible(B, n) == Len(B) # n

\* [[0 for _ in range(p)] for _ in range(m)]
Zeros(m, p) == Tabulate(m, [r \in 1..m |-> Tabulate(p, [c \in 1..p |-> 0])])

\* the sum of the two entries in place of their product
Term_Sum(A, B, i, j, k) == A[i + 1][k + 1] + B[k + 1][j + 1]

\* A[i][k] * B[k][j]
Term(A, B, i, j, k) == A[i + 1][k + 1] * B[k + 1][j + 1]

\* A[i][k] or B[k][j] raises IndexError
OutOfRange(A, B, i, j, k) == k >= Len(A[i + 1]) \/ j >= Len(B[k + 1])

MM_Validate ==
    /\ fn = "matrix_multiply" /\ pc = "start"
    /\ IF IsEmpty(mm.A, mm.B)
       THEN err' = "ValueError" /\ pc' = "raised"
       ELSE err' = err /\ pc' = "dims"
    /\ UNCHANGED <<mm, fn, attention>>

MM_Dims ==
    /\ fn = "matrix_multiply" /\ pc = "dims"
    /\ mm' = [mm EXCEPT !.m = Len(mm.A), !.n = Len(mm.A[1]), !.p = Len(mm.B[1])]
    /\ IF Incompatible(mm.B, mm'.n)
       THEN err' = "ValueError" /\ pc' = "raised"
       ELSE err' = err /\ pc' = "alloc"
    /\ UNCHANGED <<fn, attention>>

MM_Alloc ==
    /\ fn = "matrix_multiply" /\ pc = "alloc"
    /\ mm' = [mm EXCEPT !.C = Zeros(mm.m, mm.p)]
    /\ pc' = "loop"
    /\ UNCHANGED <<fn, err, attention>>

\* one pass of the body of the innermost loop, and the step to the next
\* (i, j, k) of the three nested loops
MM_Accumulate ==
    /\ fn = "matrix_multiply" /\ pc = "loop"
    /\ IF OutOfRange(mm.A, mm.B, mm.i, mm.j, mm.k)
       THEN err' = "IndexError" /\ pc' = "raised" /\ mm' = mm
       ELSE /\ err' = err
            /\ LET sum == [mm EXCEPT !.C[mm.i + 1][mm.j + 1] =
                                        @ + Term(mm.A, mm.B, mm.i, mm.j, mm.k)]
               IN  IF mm.k + 1 < mm.n
                   THEN mm' = [sum EXCEPT !.k = @ + 1] /\ pc' = pc
                   ELSE IF mm.j + 1 < mm.p
                   THEN mm' = [sum EXCEPT !.j = @ + 1, !.k = 0] /\ pc' = pc
                   ELSE IF mm.i + 1 < mm.m
                   THEN mm' = [sum EXCEPT !.i = @ + 1, !.j = 0, !.k = 0] /\ pc' = pc
                   ELSE mm' = sum /\ pc' = "return"
    /\ UNCHANGED <<fn, attention>>

MM_Return ==
    /\ fn = "matrix_multiply" /\ pc = "return"
    /\ pc' = "done"
    /\ UNCHANGED <<mm, fn, err, attention>>

MatNext == MM_Validate \/ MM_Dims \/ MM_Alloc \/ MM_Accumulate \/ MM_Return

MatSpec == MatInit /\ [][MatNext]_vars

(* ======================= multi_head_attention ========================= *)
IsMHA == fn = "multi_head_attention"
Untouched ==
    /\ Q_heads = NoArr /\ K_heads = NoArr /\ V_heads = NoArr
    /\ scores = NoArr /\ scores_shifted = NoArr /\ exp_scores = NoArr
    /\ attention_weights = NoArr /\ attention_output_heads = NoArr /\ output = NoArr

\* columns lo .. lo + w - 1 of a matrix
ColSlice(A, lo, w) ==
    Arr2(A.shape[1], w, [n \in Ix2(A.shape[1], w) |-> At2(A, n[1], lo + n[2])])

\* C1: when d_model % n_heads != 0 the call ends with ValueError and no split,
\* score, softmax or aggregation result was ever produced; when n_heads
\* divides d_model the error is never raised.
C1_ConfigurationErrorFirst ==
    IsMHA =>
        /\ (d_model % n_heads # 0 /\ pc # "start") =>
               (pc = "raised" /\ err = "ValueError" /\ Untouched)
        /\ (d_model % n_heads = 0) => (err = "none" /\ pc # "raised")

C1_Witness ==
    IsMHA /\ pc = "raised" /\ err = "ValueError" /\ n_heads < d_model /\ n_heads > 1

\* C2: after the split, head h of Q_heads, K_heads and V_heads holds, at row s
\* and offset c, the input entry at row s and column h * d_k + c, and the
\* split arrays have shape (n_heads, seq_len, d_k).
C2_SplitContiguous ==
    (IsMHA /\ Q_heads # NoArr) =>
        \A P \in {<<Q, Q_heads>>, <<K, K_heads>>, <<V, V_heads>>} :
            /\ P[2].shape = <<n_heads, seq_len, d_k>>
            /\ \A h \in 0..(n_heads - 1), s \in 0..(seq_len - 1), c \in 0..(d_k - 1) :
                   At3(P[2], h, s, c) = At2(P[1], s, h * d_k + c)

C2_Witness ==
    IsMHA /\ Q_heads # NoArr /\ n_heads >= 2 /\ d_k >= 2 /\ seq_len >= 2

\* C3: merging the freshly split heads back, with no attention in between,
\* reproduces the (seq_len, d_model) input entry for entry.
C3_MergeInvertsSplit ==
    (IsMHA /\ Q_heads # NoArr) =>
        /\ MergeHeads(Q_heads, seq_len, d_model) = Q
        /\ MergeHeads(K_heads, seq_len, d_model) = K
        /\ MergeHeads(V_heads, seq_len, d_model) = V

C3_Witness ==
    IsMHA /\ pc = "scores" /\ n_heads >= 2 /\ d_k >= 2 /\ seq_len >= 2
          /\ \E i \in 1..Len(Q.data) : Q.data[i] # Q.data[1]

\* C4: the output columns of head h are self_attention of the column slices
\* [h * d_k, (h + 1) * d_k) of Q, K and V; with one head the output is
\* self_attention(Q, K, V).
C4_PerHeadSelfAttention ==
    (IsMHA /\ pc = "done") =>
        /\ \A h \in 0..(n_heads - 1) :
               ColSlice(output, h * d_k, d_k) =
                   self_attention(ColSlice(Q, h * d_k, d_k), ColSlice(K, h * d_k, d_k),
                                  ColSlice(V, h * d_k, d_k))
        /\ n_heads = 1 => output = self_attention(Q, K, V)

C4_Witness ==
    IsMHA /\ pc = "done" /\ n_heads >= 2 /\ d_k >= 2 /\ seq_len >= 2
          /\ \E r \in 0..(Len(attention_weights.data) \div seq_len - 1) :
                 \E i, j \in 1..seq_len :
                    RowOf(attention_weights, r)[i] # RowOf(attention_weights, r)[j]

\* X with dv * (row + 1) added to the entries of the columns of head g
PerturbHead(X, g, dk, dv) ==
    Arr2(X.shape[1], X.shape[2],
         [n \in Ix2(X.shape[1], X.shape[2]) |->
            IF n[2] \div dk = g THEN At2(X, n[1], n[2]) + dv * (n[1] + 1)
            ELSE At2(X, n[1], n[2])])

\* head h of a rank-3 array is still unwritten / fully written
HeadUnset(A, h) ==
    \A i \in 0..(A.shape[2] - 1), j \in 0..(A.shape[3] - 1) : At3(A, h, i, j) = Unset
HeadSet(A, h) ==
    \A i \in 0..(A.shape[2] - 1), j \in 0..(A.shape[3] - 1) : At3(A, h, i, j) # Unset

\* C5: heads are independent.  Whatever order the heads were worked through,
\* the merged output is the same function of the arguments; a head's step
\* writes its own slot only; and changing the columns of Q, K or V of a head g
\* leaves the output columns of every other head unchanged.
C5_HeadsIndependent ==
    /\ (IsMHA /\ pc = "done") => output = multi_head_attention(Q, K, V, n_heads)
    /\ (IsMHA /\ pc = "scores") =>
           \A h \in 0..(n_heads - 1) :
               IF h \in pending THEN HeadUnset(scores, h) ELSE HeadSet(scores, h)
    /\ (IsMHA /\ pc = "aggregate") =>
           \A h \in 0..(n_heads - 1) :
               IF h \in pending THEN HeadUnset(attention_output_heads, h)
               ELSE HeadSet(attention_output_heads, h)
    /\ (IsMHA /\ pc = "done") =>
           \A g \in 0..(n_heads - 1) : \A a, b, c \in {0, 1} :
               LET out2 == multi_head_attention(PerturbHead(Q, g, d_k, a),
                                                PerturbHead(K, g, d_k, b),
                                                PerturbHead(V, g, d_k, c), n_heads)
               IN  \A h \in 0..(n_heads - 1) \ {g} :
                       ColSlice(out2, h * d_k, d_k) = ColSlice(output, h * d_k, d_k)

\* a run that took the heads out of index order, and whose result depends on
\* the columns of each head
C5_Witness ==
    /\ IsMHA /\ pc = "aggregate" /\ n_heads >= 2 /\ seq_len >= 2
    /\ 0 \in pending /\ (n_heads - 1) \notin pending
    /\ multi_head_attention(PerturbHead(Q, 0, d_k, 1), PerturbHead(K, 0, d_k, 1),
                            PerturbHead(V, 0, d_k, 1), n_heads)
          # multi_head_attention(Q, K, V, n_heads)

\* C6: a successful call returns a matrix of the shape of Q, (seq_len, d_model).
C6_OutputShape ==
    (IsMHA /\ pc = "done") =>
        /\ output.shape = Q.shape
        /\ output.shape = <<seq_len, d_model>>
        /\ Len(output.data) = seq_len * d_model

C6_Witness == IsMHA /\ pc = "done" /\ n_heads >= 2 /\ d_k >= 2 /\ seq_len >= 2 /\ err = "none"

(* ========================= masked_attention =========================== *)
IsMasked == fn = "masked_attention"
MaskApplied == IsMasked /\ pc \notin {"start", "mask"}

\* the value lies below -1e4
BelowThreshold(x) ==
    \/ x.k = "ninf"
    \/ x.k = "fin" /\ (x.b > 0 \/ (x.b = 0 /\ x.f < (0 - 10000) * FIX))
AnyBelowThreshold(m) == \E x \in 1..Len(m.data) : BelowThreshold(m.data[x])

\* C7: with no mask the scores stay Q K^T / sqrt(d_k); a mask with at least
\* one entry below -1e4 is added to the scores entry by entry; every other
\* mask is applied as a binary mask.
C7_MaskClassification ==
    MaskApplied =>
        LET raw == ScaledDotProduct(Q, K)
            N == Len(raw.data)
        IN  /\ scaled_dot_product.shape = raw.shape
            /\ IF mask = NoMask THEN scaled_dot_product = raw
               ELSE IF AnyBelowThreshold(mask)
               THEN \A x \in 1..N :
                       scaled_dot_product.data[x] = NAdd(raw.data[x], mask.data[x])
               ELSE \A x \in 1..N :
                       scaled_dot_product.data[x] =
                           IF mask.data[x] = Fin(0) THEN Big(1, 0) ELSE raw.data[x]

\* a mask whose lowest entry is exactly -1e4 (binary), with rows to tell the
\* two treatments apart
C7_Witness ==
    /\ MaskApplied /\ mask # NoMask /\ seq_len >= 2
    /\ \E x \in 1..Len(mask.data) : mask.data[x] = Fin((0 - 10000) * FIX)
    /\ ~AnyBelowThreshold(mask)
    /\ scaled_dot_product # AddMask(ScaledDotProduct(Q, K), mask)

\* C8: under a binary mask the score is -1e9 exactly where the mask is 0 and
\* is the unmasked score everywhere else.
C8_BinarySentinel ==
    (MaskApplied /\ mask # NoMask /\ ~AnyBelowThreshold(mask)) =>
        \A i \in 0..(seq_len - 1), j \in 0..(seq_len - 1) :
            /\ At2(mask, i, j) = Fin(0) => At2(scaled_dot_product, i, j) = Big(1, 0)
            /\ At2(mask, i, j) # Fin(0) =>
                   At2(scaled_dot_product, i, j) = At2(ScaledDotProduct(Q, K), i, j)

C8_Witness ==
    /\ MaskApplied /\ mask # NoMask /\ ~AnyBelowThreshold(mask) /\ seq_len >= 2
    /\ \E x, y \in 1..Len(mask.data) :
          /\ mask.data[x] = Fin(0) /\ scaled_dot_product.data[x] = Big(1, 0)
          /\ mask.data[y] = Fin(FIX) /\ scaled_dot_product.data[y] # Big(1, 0)

\* the mask is 0 at allowed and -1e9 at forbidden positions
IsAdditiveForm(m) == m # NoMask /\ \A x \in 1..Len(m.data) : m.data[x] \in {Fin(0), Big(1, 0)}
\* the binary mask over the same allowed positions: 1 allowed, 0 forbidden
BinaryForm(m) ==
    [shape |-> m.shape,
     data |-> Tabulate(Len(m.data),
                       [x \in 1..Len(m.data) |->
                          IF m.data[x] = Fin(0) THEN Fin(FIX) ELSE Fin(0)])]
\* two outputs (scale WS) agree to within 1e-4
Close(x, y) ==
    /\ x.k = "fin" /\ y.k = "fin" /\ x.b = y.b
    /\ x.f - y.f <= WS \div 10^4 /\ y.f - x.f <= WS \div 10^4

\* C9: the output under the additive mask (0 / -1e9) agrees to within 1e-4
\* with the output under the binary mask (1 / 0) over the same allowed
\* positions.
C9_MaskingEquivalence ==
    (IsMasked /\ pc = "done" /\ IsAdditiveForm(mask)) =>
        LET other == masked_attention(Q, K, V, BinaryForm(mask))
        IN  \A x \in 1..Len(output.data) : Close(output.data[x], other.data[x])

(* ====================== softmax, all three functions ================== *)
Rows(A) == 0..(Len(A.data) \div LastDim(A) - 1)
IsFin(x) == x.k = "fin" /\ x.b = 0

\* C10: after every softmax the weights are row-stochastic (entries >= 0, row
\* sums 1 within 1e-6); the shifted scores are <= 0 with row maximum exactly
\* 0, so every row has an exponential equal to 1 and a non-zero sum.
C10_RowStochastic ==
    /\ attention_weights # NoArr =>
           \A r \in Rows(attention_weights) :
               LET row == RowOf(attention_weights, r)
                   sum == ISum([j \in 1..Len(row) |-> row[j].f])
               IN  /\ \A j \in 1..Len(row) : IsFin(row[j]) /\ row[j].f >= 0
                   /\ sum - WS <= WS \div 10^6 /\ WS - sum <= WS \div 10^6
    /\ exp_scores # NoArr =>
           \A r \in Rows(exp_scores) :
               LET row == RowOf(exp_scores, r)
               IN  /\ \A j \in 1..Len(row) : IsFin(row[j]) /\ row[j].f >= 0 /\ row[j].f <= ES
                   /\ \E j \in 1..Len(row) : row[j].f = ES
                   /\ NSum(row) # Fin(0)
    /\ scores_shifted # NoArr =>
           \A r \in Rows(scores_shifted) :
               LET row == RowOf(scores_shifted, r)
               IN  /\ \A j \in 1..Len(row) : IsFin(row[j]) /\ row[j].f <= 0
                   /\ \E j \in 1..Len(row) : row[j].f = 0

(* ================== masked_attention, argument shapes ================= *)
\* the shapes the contract rules out: Q and K differ in width, K and V differ
\* in row count, or the mask is not (rows of Q, rows of K)
WidthMismatch == Q.shape[2] # K.shape[2]
RowMismatch == K.shape[1] # V.shape[1]
MaskMismatch == mask # NoMask /\ mask.shape # <<Q.shape[1], K.shape[1]>>
Returned == pc = "done"

\* C11: masked_attention raises a shape error and returns nothing whenever
\* Q and K differ in width, or K and V differ in row count, or the mask's
\* shape is not exactly (m, n); no other mask shape is silently accepted.
C11_ShapeMismatchRaises ==
    (IsMasked /\ (WidthMismatch \/ RowMismatch \/ MaskMismatch)) =>
        ~Returned /\ output = NoArr

(* =================== masked_attention, degenerate rows ================ *)
\* a binary mask of 1 (keep) and 0 (masked); an additive mask of 0 (keep)
\* and -1e9 or -inf (masked) with at least one masked entry
CleanBinary(m) == m # NoMask /\ \A x \in 1..Len(m.data) : m.data[x] \in {Fin(0), Fin(FIX)}
CleanAdditive(m) ==
    /\ m # NoMask /\ AnyBelowThreshold(m)
    /\ \A x \in 1..Len(m.data) : m.data[x] \in {Fin(0), Big(1, 0), NegInf}
Forbids(m, i, j) ==
    IF CleanAdditive(m) THEN At2(m, i, j) # Fin(0) ELSE At2(m, i, j) = Fin(0)
RowForbidden(m, i) == \A j \in 0..(m.shape[2] - 1) : Forbids(m, i, j)
DegenerateMask ==
    /\ IsMasked /\ (CleanBinary(mask) \/ CleanAdditive(mask))
    /\ \E i \in 0..(mask.shape[1] - 1) : RowForbidden(mask, i)

\* row r of a rank-2 array, as a 1-row array
RowArr(A, r) == Arr2(1, A.shape[2], [n \in Ix2(1, A.shape[2]) |-> At2(A, r, n[2])])
\* the weights of query r computed from its own scores and mask row alone,
\* the mask being treated as the whole mask is (additive or binary)
RowWeights(r) ==
    LET S == ScaledDotProduct(RowArr(Q, r), K)
        masked == IF IsAdditive(mask) THEN AddMask(S, RowArr(mask, r))
                  ELSE WhereMask(S, RowArr(mask, r))
    IN  Normalize(ExpArr(ShiftMax(masked))).data
\* the weight w is within 0.1 of 1/n
NearUniform(w, n) ==
    /\ IsFin(w)
    /\ n * w.f - WS <= n * (WS \div 10) /\ WS - n * w.f <= n * (WS \div 10)

\* C12: when the mask forbids every position of some row, masked_attention
\* raises no error and returns a result; the weights of such a row are a
\* well-defined uniform or near-uniform distribution over all positions, and
\* the weights of a row with allowed positions are what that row's own scores
\* and mask entries give.
C12_DegenerateRowLenient ==
    DegenerateMask =>
        /\ err = "none" /\ pc # "raised"
        /\ attention_weights # NoArr =>
               \A i \in Rows(attention_weights) :
                   IF RowForbidden(mask, i)
                   THEN \A j \in 0..(seq_len - 1) :
                           NearUniform(At2(attention_weights, i, j), seq_len)
                   ELSE RowOf(attention_weights, i) =
                            [j \in 1..seq_len |-> RowWeights(i)[j]]
        /\ pc = "done" => output # NoArr

(* ========================== matrix_multiply =========================== *)
IsMatMul == fn = "matrix_multiply"
\* a non-empty list of non-empty rows of one length
IsMatrix(M) ==
    /\ M # <<>> /\ M[1] # <<>>
    /\ \A r \in 1..Len(M) : Len(M[r]) = Len(M[1])
\* A is (m, n) and B is (n, p)
Conforming == IsMatMul /\ IsMatrix(mm.A) /\ IsMatrix(mm.B) /\ Len(mm.B) = Len(mm.A[1])

\* C13: for a non-empty A of shape (m, n) and B of shape (n, p) the call
\* raises nothing and returns an m-by-p list of lists with
\* C[i][j] = sum over k of A[i][k] * B[k][j] (so the identity on the left
\* returns B), and no step modifies A or B.
C13_MatrixProduct ==
    /\ [](Conforming =>
            /\ pc # "raised" /\ err = "none"
            /\ pc = "done" =>
                   /\ Len(mm.C) = Len(mm.A)
                   /\ \A r \in 1..Len(mm.A) :
                          /\ Len(mm.C[r]) = Len(mm.B[1])
                          /\ \A c \in 1..Len(mm.B[1]) :
                                 mm.C[r][c] = ISum([x \in 1..Len(mm.B) |->
                                                      mm.A[r][x] * mm.B[x][c]])
                   /\ mm.A = Identity(Len(mm.A)) => mm.C = mm.B)
    /\ [][mm'.A = mm.A /\ mm'.B = mm.B]_vars

\* a returned product of a 2 x 2 or larger A, not the identity, with B
C13_Witness ==
    /\ Conforming /\ pc = "done"
    /\ Len(mm.A) >= 2 /\ Len(mm.B) >= 2 /\ Len(mm.B[1]) >= 2
    /\ mm.A # Identity(Len(mm.A)) /\ mm.C # mm.B
    /\ \E r \in 1..Len(mm.C), c \in 1..Len(mm.C[1]) : mm.C[r][c] # 0

\* A or B is the empty list, or its first row is
EmptyArgument == mm.A = <<>> \/ mm.B = <<>> \/ mm.A[1] = <<>> \/ mm.B[1] = <<>>
\* the row count of B differs from the column count of A
DimensionMismatch == ~EmptyArgument /\ Len(mm.B) # Len(mm.A[1])

\* C14: when A or B is empty or has an empty first row, or B's row count
\* differs from A's column count, the call ends in ValueError and returns
\* nothing: no product, partial or truncated, is ever built.
C14_InvalidInputRaises ==
    (IsMatMul /\ (EmptyArgument \/ DimensionMismatch)) =>
        /\ pc \in {"start", "dims", "raised"}
        /\ pc = "raised" => err = "ValueError"
        /\ mm.C = <<>>

\* a B with more rows than A has columns, rejected
C14_Witness ==
    /\ IsMatMul /\ pc = "raised" /\ err = "ValueError"
    /\ DimensionMismatch /\ Len(mm.B) > Len(mm.A[1])
====
